---- MODULE Spec2Model ----
(***************************************************************************)
(* A model of two routines of the repository:                              *)
(*                                                                         *)
(*   ResourceManager._locate_image  (enthought/resource/resource_manager)  *)
(*   toolkit_object                 (pyface/toolkit)                       *)
(*                                                                         *)
(* Strings are sequences of tokens.  "/", "." , "*" and ":" are tokens of  *)
(* their own, every other token is a word that holds none of them, so      *)
(* os.path.split, os.path.splitext, os.path.join, fnmatch and str.split    *)
(* are computed here the way the library computes them on characters.      *)
(* Paths are POSIX paths (os.path is posixpath).                           *)
(***************************************************************************)
EXTENDS Naturals, Sequences, FiniteSets, TLC

\* Bounds of the model.
MaxPath == 2
MaxFiles == 3

----------------------------------------------------------------------------
(* String helpers (str methods and os.path functions).                     *)

\* s.rfind(t) + 1: the 1-based place of the last token t, 0 when there is none.
RFind(s, t) ==
    LET hits == {k \in 1..Len(s) : s[k] = t}
    IN  IF hits = {} THEN 0 ELSE CHOOSE k \in hits : \A h \in hits : h <= k

\* s.find(t) + 1: the 1-based place of the first token t, 0 when there is none.
Find(s, t) ==
    LET hits == {k \in 1..Len(s) : s[k] = t}
    IN  IF hits = {} THEN 0 ELSE CHOOSE k \in hits : \A h \in hits : k <= h

\* s.rstrip('/')
RECURSIVE RStripSep(_)
RStripSep(s) ==
    IF s # <<>> /\ s[Len(s)] = "/" THEN RStripSep(SubSeq(s, 1, Len(s) - 1)) ELSE s

\* sub in s
Contains(s, sub) ==
    \E k \in 0..(Len(s) - Len(sub)) : SubSeq(s, k + 1, k + Len(sub)) = sub

\* posixpath.join(a, b)
Join(a, b) ==
    IF b # <<>> /\ b[1] = "/" THEN b
    ELSE IF a = <<>> \/ a[Len(a)] = "/" THEN a \o b
    ELSE a \o <<"/">> \o b

\* posixpath.join(a, b, c)
Join3(a, b, c) == Join(Join(a, b), c)

\* posixpath.split(p): <<head, tail>>
Split(p) ==
    LET i    == RFind(p, "/")
        head == SubSeq(p, 1, i)
        tail == SubSeq(p, i + 1, Len(p))
    IN  IF head # <<>> /\ RStripSep(head) # <<>>
        THEN <<RStripSep(head), tail>>
        ELSE <<head, tail>>

\* posixpath.splitdrive(p)[1]: POSIX paths have no drive.
SplitDriveRest(p) == p

\* posixpath.splitext(p): <<root, ext>>; leading dots of the last component
\* do not start an extension.
SplitExt(p) ==
    LET sepIndex == RFind(p, "/")
        dotIndex == RFind(p, ".")
    IN  IF dotIndex > sepIndex
           /\ \E k \in (sepIndex + 1)..(dotIndex - 1) : p[k] # "."
        THEN <<SubSeq(p, 1, dotIndex - 1), SubSeq(p, dotIndex, Len(p))>>
        ELSE <<p, <<>> >>

\* fnmatch.fnmatch(s, pat) for patterns whose only magic is "*".
RECURSIVE FnMatch(_, _)
FnMatch(s, pat) ==
    IF pat = <<>> THEN s = <<>>
    ELSE IF Head(pat) = "*"
         THEN \E k \in 0..Len(s) : FnMatch(SubSeq(s, k + 1, Len(s)), Tail(pat))
         ELSE s # <<>> /\ Head(s) = Head(pat) /\ FnMatch(Tail(s), Tail(pat))

\* glob.has_magic(s)
HasMagic(s) == \E k \in 1..Len(s) : s[k] \in {"*", "?", "["}


----------------------------------------------------------------------------
(* The host file system.  A file is [path, kind, entries]: kind "plain" is *)
(* a file that is no archive, "zip" a readable archive holding `entries`,  *)
(* "corrupt" a file zipfile.is_zipfile accepts (its end-of-archive record  *)
(* is there) and zipfile.ZipFile refuses (its directory is damaged).       *)
(* Directories are the proper prefixes of the files' paths; the empty      *)
(* path names the working directory.                                       *)

VARIABLES
    fs,             \* the files on disk (never written by the lookup)
    image_name,     \* _locate_image's arguments
    resource_path,
    size,           \* <<>> stands for None, <<w, h>> for a size hint
    pc,             \* the statement _locate_image is at
    i,              \* index of `dirname` in resource_path
    j,              \* index of `path` in subdirs
    filepath,       \* locals of the upward walk
    zippath,
    result,         \* what _locate_image returned
    exc             \* the exception that left _locate_image, "" if none

lvars == <<fs, image_name, resource_path, size, pc, i, j, filepath, zippath,
           result, exc>>

\* The state of pyface.toolkit and of its caller.
VARIABLES
    init_import,     \* what importing pyface.ui.qt4.init does
    installed,       \* sys.path: backend module name -> what importing it does
    environ,         \* os.environ's keys
    name,            \* toolkit_object's argument
    toolkit_backend, \* the global _toolkit_backend
    tk_pc,           \* where the module and its caller are
    be_obj,          \* what toolkit_object returned
    tk_exc           \* the exception that left the last call, "" if none

tvars == <<init_import, installed, environ, name, toolkit_backend, tk_pc,
           be_obj, tk_exc>>

vars == <<lvars, tvars>>

Range(s) == {s[k] : k \in 1..Len(s)}

IsFile(p) == \E f \in fs : f.path = p

FileAt(p) == CHOOSE f \in fs : f.path = p

\* q lies strictly inside directory d
Under(d, q) ==
    LET pre == IF d = <<>> \/ d[Len(d)] = "/" THEN d ELSE d \o <<"/">>
    IN  /\ Len(q) > Len(pre)
        /\ SubSeq(q, 1, Len(pre)) = pre
        /\ (d = <<>> => q[1] # "/")

IsDir(p) == \E f \in fs : Under(p, f.path)

\* os.path.lexists(p)
LExists(p) == p # <<>> /\ (IsFile(p) \/ IsDir(p))

\* os.listdir(d): the names of the files and directories right below d
\* (nothing when d is no directory: glob1 swallows the os.error).
ListDir(d) ==
    LET pre == IF d = <<>> \/ d[Len(d)] = "/" THEN d ELSE d \o <<"/">>
        rest(q) == SubSeq(q, Len(pre) + 1, Len(q))
        first(r) == IF Find(r, "/") = 0 THEN r ELSE SubSeq(r, 1, Find(r, "/") - 1)
    IN  {first(rest(f.path)) : f \in {g \in fs : Under(d, g.path)}}

\* glob.glob1(dirname, pattern)
Glob1(dirname, pattern) ==
    LET names   == ListDir(dirname)
        visible == IF pattern[1] # "." THEN {n \in names : n[1] # "."} ELSE names
    IN  {n \in visible : FnMatch(n, pattern)}

\* glob.glob0(dirname, basename)
Glob0(dirname, basename) ==
    IF basename = <<>>
    THEN IF IsDir(dirname) THEN {basename} ELSE {}
    ELSE IF LExists(Join(dirname, basename)) THEN {basename} ELSE {}

\* glob.glob(pathname), as a set: the order of the list is os.listdir's,
\* which is arbitrary.
RECURSIVE Glob(_)
Glob(pathname) ==
    IF ~HasMagic(pathname)
    THEN IF LExists(pathname) THEN {pathname} ELSE {}
    ELSE LET dirname  == Split(pathname)[1]
             basename == Split(pathname)[2]
         IN  IF dirname = <<>>
             THEN Glob1(<<>>, basename)
             ELSE LET dirs == IF dirname # pathname /\ HasMagic(dirname)
                              THEN Glob(dirname) ELSE {dirname}
                  IN  UNION {{Join(d, n) :
                                n \in IF HasMagic(basename)
                                      THEN Glob1(d, basename)
                                      ELSE Glob0(d, basename)} : d \in dirs}

\* zipfile.is_zipfile(p): False for a missing or unreadable file.
IsZipfile(p) == IsFile(p) /\ FileAt(p).kind \in {"zip", "corrupt"}

\* Whether zipfile.ZipFile(p) opens (it raises BadZipfile or IOError otherwise).
ZipOpens(p) == IsFile(p) /\ FileAt(p).kind = "zip"

\* Whether ZipFile(p).read(entry) returns data (it raises KeyError otherwise).
ZipHas(p, entry) == entry \in FileAt(p).entries


----------------------------------------------------------------------------
(* ResourceManager._locate_image                                          *)

\* A variant of IMAGE_EXTENSIONS with the first two extensions exchanged.
IMAGE_EXTENSIONS_jpg_first ==
    << <<".", "jpg">>, <<".", "png">>, <<".", "bmp">>, <<".", "gif">>,
       <<".", "ico">> >>

IMAGE_EXTENSIONS ==
    << <<".", "png">>, <<".", "jpg">>, <<".", "bmp">>, <<".", "gif">>,
       <<".", "ico">> >>

None == [kind |-> "None", filename |-> <<>>, archive |-> <<>>, entry |-> <<>>]

\* ImageReference(self.resource_factory, filename=filename)
FileReference(filename) ==
    [kind |-> "file", filename |-> filename, archive |-> <<>>, entry |-> <<>>]

\* ImageReference(self.resource_factory, data=zip_file.read(entry)): the data
\* are the bytes of `entry` in `archive`.
DataReference(archive, entry) ==
    [kind |-> "data", filename |-> <<>>, archive |-> archive, entry |-> entry]

\* basename, extension = os.path.splitext(image_name)
basename == SplitExt(image_name)[1]

\* The extensions accepted for image_name.
extensions ==
    IF Len(SplitExt(image_name)[2]) > 0
    THEN << SplitExt(image_name)[2] >>
    ELSE IMAGE_EXTENSIONS

\* The glob pattern for image_name.
pattern ==
    IF Len(SplitExt(image_name)[2]) > 0
    THEN image_name
    ELSE image_name \o <<".", "*">>

\* 'images/%dx%d' % (size[0], size[1])
SizeDir == <<"images", "/", ToString(size[1]), "x", ToString(size[2])>>

\* A variant of subdirs that tries images/ before images/<w>x<h>.
subdirs_images_first ==
    IF size = <<>>
    THEN << <<"images">>, <<>> >>
    ELSE << <<"images">>, SizeDir, <<>> >>

\* The sub-directories of a path entry, in the order they are searched.
subdirs ==
    IF size = <<>>
    THEN << <<"images">>, <<>> >>
    ELSE << SizeDir, <<"images">>, <<>> >>

\* A variant of dirname that walks the search path from its end.
dirname_reversed == resource_path[Len(resource_path) + 1 - i]

dirname == resource_path[i]

\* Whether the loop over glob's filenames accepts `filename`.
Accepts(filename) == SplitExt(filename)[2] \in Range(extensions)

\* The files the loop over one sub-directory may return: the first accepted
\* filename of glob's list, and any accepted one can come first in it.
Filenames(dir, sub) == {f \in Glob(Join3(dir, sub, pattern)) : Accepts(f)}

\* A variant of ZipNames that reads images/<name><ext> from images.zip.
ZipNames_under_images ==
    [k \in 1..Len(extensions) |-> <<"images", "/">> \o basename \o extensions[k]]

\* The entries read from <dirname>/images.zip, in order.
ZipNames == [k \in 1..Len(extensions) |-> basename \o extensions[k]]

\* A variant of ArchiveNames that always puts zippath and a slash in front,
\* also when zippath is empty.
ArchiveNames_leading_slash(zp) ==
    LET n       == Len(extensions)
        subpath == << <<"images">>, <<>> >>
        mid(s)  == IF s # <<>> THEN s \o <<"/">> ELSE <<>>
    IN  [k \in 1..(2 * n) |->
            zp \o <<"/">> \o mid(subpath[((k - 1) \div n) + 1])
                \o basename \o extensions[((k - 1) % n) + 1]]

\* The entries read from the enclosing archive, in order: for each subpath of
\* ['images', ''], for each extension.
ArchiveNames(zp) ==
    LET n       == Len(extensions)
        subpath == << <<"images">>, <<>> >>
        pre     == IF zp # <<>> THEN zp \o <<"/">> ELSE <<>>
        mid(s)  == IF s # <<>> THEN s \o <<"/">> ELSE <<>>
    IN  [k \in 1..(2 * n) |->
            pre \o mid(subpath[((k - 1) \div n) + 1])
                \o basename \o extensions[((k - 1) % n) + 1]]

\* The first name of `names` that `archive` holds, 0 when it holds none: each
\* failed read raises and is swallowed by the bare except.
FirstRead(archive, names) ==
    LET hits == {k \in 1..Len(names) : ZipHas(archive, names[k])}
    IN  IF hits = {} THEN 0 ELSE CHOOSE k \in hits : \A h \in hits : k <= h

\* The test of the upward walk's while loop.
WalkOn(fp) ==
    /\ ~IsZipfile(fp)
    /\ SplitDriveRest(fp) # <<"\\">>
    /\ SplitDriveRest(fp) # <<"/">>

\* for dirname in resource_path: ... / return None
ForDirname ==
    /\ pc = "for"
    /\ IF i > Len(resource_path)
       THEN /\ pc' = "returned"
            /\ result' = None
            /\ UNCHANGED j
       ELSE /\ pc' = "glob"
            /\ j' = 1
            /\ UNCHANGED result
    /\ UNCHANGED <<fs, image_name, resource_path, size, i, filepath, zippath, exc>>
    /\ UNCHANGED tvars

\* for path in subdirs: one sub-directory's glob and the loop over its result.
GlobSubdir ==
    /\ pc = "glob"
    /\ LET found == Filenames(dirname, subdirs[j])
       IN  IF found # {}
           THEN /\ \E filename \in found : result' = FileReference(filename)
                /\ pc' = "returned"
                /\ UNCHANGED j
           ELSE /\ IF j < Len(subdirs)
                   THEN j' = j + 1 /\ pc' = "glob"
                   ELSE j' = j /\ pc' = "zip"
                /\ UNCHANGED result
    /\ UNCHANGED <<fs, image_name, resource_path, size, i, filepath, zippath, exc>>
    /\ UNCHANGED tvars

\* Is there an 'images' zip file in the directory?
ImagesZip ==
    /\ pc = "zip"
    /\ LET zip_filename == Join(dirname, <<"images", ".", "zip">>)
       IN  IF ~IsFile(zip_filename)
           THEN /\ pc' = "walk"
                /\ filepath' = dirname
                /\ zippath' = <<>>
                /\ UNCHANGED <<result, exc>>
           ELSE IF ~ZipOpens(zip_filename)
           THEN \* ZipFile(zip_filename, 'r') is outside the try
                /\ pc' = "raised"
                /\ exc' = "BadZipfile"
                /\ UNCHANGED <<result, filepath, zippath>>
           ELSE IF FirstRead(zip_filename, ZipNames) # 0
           THEN /\ pc' = "returned"
                /\ result' = DataReference(zip_filename,
                                 ZipNames[FirstRead(zip_filename, ZipNames)])
                /\ UNCHANGED <<exc, filepath, zippath>>
           ELSE /\ pc' = "walk"
                /\ filepath' = dirname
                /\ zippath' = <<>>
                /\ UNCHANGED <<result, exc>>
    /\ UNCHANGED <<fs, image_name, resource_path, size, i, j>>
    /\ UNCHANGED tvars

\* The test of `while not is_zipfile(filepath) and ...`
WalkTest ==
    /\ pc = "walk"
    /\ pc' = IF WalkOn(filepath) THEN "split" ELSE "archive"
    /\ UNCHANGED <<fs, image_name, resource_path, size, i, j, filepath, zippath,
                   result, exc>>
    /\ UNCHANGED tvars

\* The body of the while loop.
WalkBody ==
    /\ pc = "split"
    /\ LET tail == Split(filepath)[2]
       IN  /\ filepath' = Split(filepath)[1]
           /\ zippath' = IF zippath # <<>> THEN tail \o <<"/">> \o zippath ELSE tail
    /\ pc' = "walk"
    /\ UNCHANGED <<fs, image_name, resource_path, size, i, j, result, exc>>
    /\ UNCHANGED tvars

\* if we found a zipfile, then look inside it for the image!
Archive ==
    /\ pc = "archive"
    /\ IF ~IsZipfile(filepath)
       THEN /\ pc' = "for"
            /\ i' = i + 1
            /\ UNCHANGED <<result, exc>>
       ELSE IF ~ZipOpens(filepath)
       THEN \* ZipFile(filepath) is outside the try
            /\ pc' = "raised"
            /\ exc' = "BadZipfile"
            /\ UNCHANGED <<result, i>>
       ELSE IF FirstRead(filepath, ArchiveNames(zippath)) # 0
       THEN /\ pc' = "returned"
            /\ result' = DataReference(filepath,
                   ArchiveNames(zippath)[FirstRead(filepath, ArchiveNames(zippath))])
            /\ UNCHANGED <<exc, i>>
       ELSE /\ pc' = "for"
            /\ i' = i + 1
            /\ UNCHANGED <<result, exc>>
    /\ UNCHANGED <<fs, image_name, resource_path, size, j, filepath, zippath>>
    /\ UNCHANGED tvars


----------------------------------------------------------------------------
(* pyface.toolkit                                                          *)


\* ETSConfig.toolkit = 'qt4'
Toolkit == "qt4"

\* 'pyface.ui.%s.' % tk
Backend(tk) == <<"pyface", ".", "ui", ".", tk, ".">>

\* The file of pyface.toolkit itself, where __import__ raises for a module
\* that is not installed.
ToolkitFile == <<"/", "site", "/", "pyface", "/", "toolkit", ".", "py">>

\* Do this once then disappear: _init_toolkit().  A failed import of the
\* backend's init module is re-raised and pyface.toolkit fails to import.
InitToolkit ==
    /\ tk_pc = "boot"
    /\ IF init_import = "ok"
       THEN /\ toolkit_backend' = Backend(Toolkit)
            /\ tk_pc' = "ready"
            /\ UNCHANGED tk_exc
       ELSE /\ tk_pc' = "failed"
            /\ tk_exc' = "ImportError"
            /\ UNCHANGED toolkit_backend
    /\ UNCHANGED <<init_import, installed, environ, name, be_obj, lvars>>

\* name.split(':'): the pieces between the colons
RECURSIVE SplitColon(_)
SplitColon(s) ==
    IF Find(s, ":") = 0 THEN <<s>>
    ELSE <<SubSeq(s, 1, Find(s, ":") - 1)>>
             \o SplitColon(SubSeq(s, Find(s, ":") + 1, Len(s)))

\* What __import__(be_mname) does: "ok", or the exception it raises with the
\* filename of the traceback's last frame.
Import(be_mname) ==
    IF be_mname \in DOMAIN installed
    THEN installed[be_mname]
    ELSE [outcome |-> "ImportError", attrs |-> {}, filename |-> ToolkitFile]

\* The test that lets an ImportError through when ETS_DEBUG is set:
\* `not _toolkit_backend in filename`.
Reraise(filename) == ~Contains(filename, toolkit_backend)

\* toolkit_object(name)
ToolkitObject ==
    /\ tk_pc = "ready"
    /\ IF Len(SplitColon(name)) # 2
       THEN \* mname, oname = name.split(':') cannot unpack
            /\ tk_pc' = "raised"
            /\ tk_exc' = "ValueError"
            /\ UNCHANGED be_obj
       ELSE LET mname    == SplitColon(name)[1]
                oname    == SplitColon(name)[2]
                imported == Import(toolkit_backend \o mname)
            IN  IF imported.outcome = "ok"
                THEN /\ be_obj' = IF oname \in imported.attrs
                                  THEN "backend" ELSE "Unimplemented"
                     /\ tk_pc' = "returned"
                     /\ UNCHANGED tk_exc
                ELSE IF imported.outcome # "ImportError"
                THEN \* only ImportError is caught
                     /\ tk_pc' = "raised"
                     /\ tk_exc' = imported.outcome
                     /\ UNCHANGED be_obj
                ELSE IF "ETS_DEBUG" \in environ /\ Reraise(imported.filename)
                THEN /\ tk_pc' = "raised"
                     /\ tk_exc' = "ImportError"
                     /\ UNCHANGED be_obj
                ELSE /\ be_obj' = "Unimplemented"
                     /\ tk_pc' = "returned"
                     /\ UNCHANGED tk_exc
    /\ UNCHANGED <<init_import, installed, environ, name, toolkit_backend, lvars>>

\* A variant of Instantiate whose stand-in can be instantiated.
Instantiate_never_raises ==
    /\ tk_pc = "returned"
    /\ tk_pc' = "instantiated"
    /\ UNCHANGED <<init_import, installed, environ, name, toolkit_backend,
                   be_obj, tk_exc, lvars>>

\* The caller instantiates what it was given: Unimplemented.__init__ raises.
Instantiate ==
    /\ tk_pc = "returned"
    /\ IF be_obj = "Unimplemented"
       THEN tk_pc' = "raised" /\ tk_exc' = "NotImplementedError"
       ELSE tk_pc' = "instantiated" /\ UNCHANGED tk_exc
    /\ UNCHANGED <<init_import, installed, environ, name, toolkit_backend,
                   be_obj, lvars>>

----------------------------------------------------------------------------
(* Inputs.                                                                 *)

DirA == <<"/", "a">>
Cwd  == <<>>
Lib  == <<"/", "lib", ".", "zip">>
LibPQ == Lib \o <<"/", "p", "/", "q">>

\* Path entries: an absolute directory, the empty string (a relative name:
\* the working directory), an archive, a directory inside the archive.
Dirs == {DirA, Cwd, Lib, LibPQ}

Names == { <<"icon">>, <<"icon", ".", "png">>, <<"*", ".", "png">> }

Sizes == { <<>>, <<16, 16>> }

Plain(p) == [path |-> p, kind |-> "plain", entries |-> {}]
Zip(p, e) == [path |-> p, kind |-> "zip", entries |-> e]
Corrupt(p) == [path |-> p, kind |-> "corrupt", entries |-> {}]

ImagesZipName == <<"images", ".", "zip">>

Files ==
    { Plain(DirA \o <<"/", "images", "/", "16", "x", "16", "/", "icon", ".", "png">>),
      Plain(DirA \o <<"/", "images", "/", "icon", ".", "png">>),
      Plain(DirA \o <<"/", "images", "/", "icon", ".", "jpg">>),
      Plain(DirA \o <<"/", "icon", ".", "jpg">>),
      Plain(DirA \o <<"/", "icon", ".", "txt">>),
      Plain(<<"images", "/", "icon", ".", "png">>),
      Plain(<<"icon", ".", "png">>),
      Zip(Join(DirA, ImagesZipName), { <<"icon", ".", "jpg">>, <<"icon", ".", "png">> }),
      Zip(Join(DirA, ImagesZipName), { <<"images", "/", "icon", ".", "png">> }),
      Plain(Join(DirA, ImagesZipName)),
      Zip(ImagesZipName, { <<"icon", ".", "png">> }),
      Zip(Lib, { <<"p", "/", "q", "/", "images", "/", "icon", ".", "jpg">>,
                 <<"p", "/", "q", "/", "icon", ".", "png">> }),
      Zip(Lib, { <<"images", "/", "icon", ".", "png">>, <<"icon", ".", "jpg">> }),
      Corrupt(Lib) }

\* File systems: no two files at one path, and no file below a file.
FileSystems ==
    { d \in SUBSET Files :
        /\ Cardinality(d) <= MaxFiles
        /\ \A f, g \in d : f.path = g.path => f = g
        /\ \A f, g \in d : ~Under(f.path, g.path) }

\* Search paths: up to MaxPath entries, no entry twice.
ResourcePaths ==
    { p \in UNION { [1..n -> Dirs] : n \in 0..MaxPath } :
        \A a, b \in DOMAIN p : p[a] = p[b] => a = b }

LocatorIdle ==
    /\ fs = {}
    /\ image_name = <<>>
    /\ resource_path = <<>>
    /\ size = <<>>
    /\ pc = "off"
    /\ i = 0
    /\ j = 0
    /\ filepath = <<>>
    /\ zippath = <<>>
    /\ result = None
    /\ exc = ""

\* The state when _locate_image is entered.
LocatorInit ==
    /\ fs \in FileSystems
    /\ image_name \in Names
    /\ resource_path \in ResourcePaths
    /\ size \in Sizes
    /\ pc = "for"
    /\ i = 1
    /\ j = 0
    /\ filepath = <<>>
    /\ zippath = <<>>
    /\ result = None
    /\ exc = ""

BackendFile == <<"/", "site", "/", "pyface", "/", "ui", "/", "qt4", "/", "widget", ".", "py">>
OtherFile   == <<"/", "site", "/", "other", "/", "lib", ".", "py">>
EggFile     == <<"/", "eggs", "/", "pyface", ".", "ui", ".", "qt4", ".", "egg", "/", "widget", ".", "py">>

\* What importing the backend module pyface.ui.qt4.widget may do.
Modules ==
    [outcome : {"ok"}, attrs : {{}, {<<"Widget">>}}, filename : {<<>>}]
    \cup [outcome : {"ImportError"}, attrs : {{}},
          filename : {BackendFile, OtherFile, EggFile}]
    \cup [outcome : {"SyntaxError"}, attrs : {{}}, filename : {BackendFile}]

Requests ==
    { <<"widget", ":", "Widget">>, <<"missing", ":", "Widget">>, <<"widget">> }

ToolkitIdle ==
    /\ init_import = "ok"
    /\ installed = << >>
    /\ environ = {}
    /\ name = <<>>
    /\ toolkit_backend = <<>>
    /\ tk_pc = "off"
    /\ be_obj = ""
    /\ tk_exc = ""

\* The state when pyface.toolkit is imported: _toolkit_backend = None.
ToolkitInit ==
    /\ init_import \in {"ok", "ImportError"}
    /\ \E m \in Modules : installed = (Backend(Toolkit) \o <<"widget">> :> m)
    /\ environ \in {{}, {"ETS_DEBUG"}}
    /\ name \in Requests
    /\ toolkit_backend = <<>>
    /\ tk_pc = "boot"
    /\ be_obj = ""
    /\ tk_exc = ""

Next ==
    \/ ForDirname
    \/ GlobSubdir
    \/ ImagesZip
    \/ WalkTest
    \/ WalkBody
    \/ Archive

ToolkitNext ==
    \/ InitToolkit
    \/ ToolkitObject
    \/ Instantiate

Init == LocatorInit /\ ToolkitIdle

\* _locate_image
Spec == Init /\ [][Next]_vars

\* The calls for 'icon' with one path entry at most, one file on disk at most
\* and no size hint.
LiveInit ==
    /\ Init
    /\ Cardinality(fs) <= 1
    /\ Len(resource_path) <= 1
    /\ image_name = <<"icon">>
    /\ size = <<>>

\* _locate_image runs on: a call that can take a step takes it.
LiveSpec == LiveInit /\ [][Next]_vars /\ WF_vars(Next)

ToolkitStart == ToolkitInit /\ LocatorIdle

\* pyface.toolkit
ToolkitSpec == ToolkitStart /\ [][ToolkitNext]_vars


----------------------------------------------------------------------------
(* What the claims speak of, stated from the file system and the           *)
(* arguments alone.                                                        *)

ImagesDir == <<"images">>
Bare == <<>>

HasExtension == Len(SplitExt(image_name)[2]) > 0

\* The recognized extensions, in the order the specification gives them.
RecognizedOrder ==
    << <<".", "png">>, <<".", "jpg">>, <<".", "bmp">>, <<".", "gif">>,
       <<".", "ico">> >>

Rank(e) == CHOOSE k \in 1..Len(RecognizedOrder) : RecognizedOrder[k] = e

\* The extensions that qualify for image_name.
Qualifying ==
    IF HasExtension THEN {SplitExt(image_name)[2]} ELSE Range(RecognizedOrder)

\* The least element of a non-empty set of numbers.
Least(S) == CHOOSE k \in S : \A h \in S : k <= h

\* The plain files that match in path entry d.
FileMatch(d) ==
    Filenames(d, ImagesDir) \cup Filenames(d, Bare)
        \cup (IF size # <<>> THEN Filenames(d, SizeDir) ELSE {})

ImagesZipOf(d) == Join(d, ImagesZipName)

\* <name><ext> at the root of an archive, and under images/.
RootEntries == {basename \o e : e \in Qualifying}
ImagesEntries == {<<"images", "/">> \o basename \o e : e \in Qualifying}

\* d/images.zip is a readable archive holding one of `entries`.
ZipHolds(d, entries) ==
    /\ ZipOpens(ImagesZipOf(d))
    /\ \E n \in entries : ZipHas(ImagesZipOf(d), n)

\* The places where d can be cut into <archive> and /<p1>/.../<pk>.
ArchiveCuts(d) ==
    {Len(f.path) : f \in
        {g \in fs : /\ g.kind \in {"zip", "corrupt"}
                    /\ Len(g.path) <= Len(d)
                    /\ SubSeq(d, 1, Len(g.path)) = g.path
                    /\ (Len(g.path) = Len(d) \/ d[Len(g.path) + 1] = "/")}}

ArchiveOf(d) == SubSeq(d, 1, Least(ArchiveCuts(d)))

\* p1/.../pk
SubPathOf(d) == SubSeq(d, Least(ArchiveCuts(d)) + 2, Len(d))

\* <sub-path>/images/<name><ext> for each extension, then
\* <sub-path>/<name><ext> for each extension.
EnclosedNames(d) ==
    LET pre == IF SubPathOf(d) = <<>> THEN <<>> ELSE SubPathOf(d) \o <<"/">>
        exts == IF HasExtension THEN << SplitExt(image_name)[2] >>
                ELSE RecognizedOrder
        n == Len(exts)
    IN  [k \in 1..(2 * n) |->
            IF k <= n THEN pre \o <<"images", "/">> \o basename \o exts[k]
            ELSE pre \o basename \o exts[k - n]]

\* d lies in a readable archive that holds one of the entries tried for it.
ArchiveMatch(d) ==
    /\ ArchiveCuts(d) # {}
    /\ ZipOpens(ArchiveOf(d))
    /\ \E k \in DOMAIN EnclosedNames(d) : ZipHas(ArchiveOf(d), EnclosedNames(d)[k])

FirstEnclosed(d) ==
    EnclosedNames(d)[Least({k \in DOMAIN EnclosedNames(d) :
                               ZipHas(ArchiveOf(d), EnclosedNames(d)[k])})]

\* Path entry k holds a match: a plain file, an entry at the root of
\* images.zip, or an entry of an enclosing archive.
Matches(k) ==
    \/ ZipHolds(resource_path[k], RootEntries)
    \/ ArchiveMatch(resource_path[k])
    \/ FileMatch(resource_path[k]) # {}

\* The last component of a path or of an archive entry.
LastName(p) == SubSeq(p, RFind(p, "/") + 1, Len(p))

\* The directory part of an archive entry, with its slash.
EntryDir(p) == SubSeq(p, 1, RFind(p, "/"))

ReturnedName ==
    IF result.kind = "file" THEN LastName(result.filename) ELSE LastName(result.entry)

----------------------------------------------------------------------------
(* The claims.                                                             *)

\* C1: for every image name, search path and size hint _locate_image
\* terminates (it returns or raises after finitely many steps), also when a
\* path entry is a relative name or the empty string.
C1_LocateTerminates == <>(pc \in {"returned", "raised"})

C3_NoExceptionFromArchives == pc # "raised" /\ exc = ""

\* C4 as stated: for a name without an extension, the reference returned is
\* the one for the first extension of the list (.png, .jpg, .bmp, .gif, .ico)
\* among those the searched location holds, for plain files as for archive
\* entries.
C4_FirstExtensionEverywhere ==
    (pc = "returned" /\ ~HasExtension /\ result.kind # "None") =>
        IF result.kind = "file"
        THEN \A f \in FileMatch(resource_path[i]) :
                Split(f)[1] = Split(result.filename)[1]
                    => Rank(SplitExt(result.filename)[2]) <= Rank(SplitExt(f)[2])
        ELSE \A e \in Range(RecognizedOrder) :
                ZipHas(result.archive, EntryDir(result.entry) \o basename \o e)
                    => Rank(SplitExt(result.entry)[2]) <= Rank(e)

\* C4 amended: for a name without an extension, an archive entry returned is
\* the one for the first extension of the list among those the archive holds
\* in that place; a plain file returned has a recognized extension, and which
\* one is decided by the order of the directory listing, not by the list.
C4_FirstExtensionInArchives ==
    (pc = "returned" /\ ~HasExtension /\ result.kind # "None") =>
        IF result.kind = "file"
        THEN /\ SplitExt(result.filename)[2] \in Range(RecognizedOrder)
             /\ result.filename \in FileMatch(resource_path[i])
        ELSE /\ SplitExt(result.entry)[2] \in Range(RecognizedOrder)
             /\ ZipHas(result.archive, result.entry)
             /\ \A e \in Range(RecognizedOrder) :
                  ZipHas(result.archive, EntryDir(result.entry) \o basename \o e)
                      => Rank(SplitExt(result.entry)[2]) <= Rank(e)

C4_Witness ==
    /\ pc = "returned"
    /\ ~HasExtension
    /\ result.kind = "data"
    /\ result.entry = <<"icon", ".", "png">>
    /\ ZipHas(result.archive, <<"icon", ".", "jpg">>)

\* C5: for a name with an extension, whatever is returned is a file or an
\* archive entry whose name is exactly the requested name.
C5_ExactNameOnly ==
    (pc = "returned" /\ HasExtension /\ result.kind # "None")
        => ReturnedName = image_name

\* C6: the path entries are consulted in order and the lookup stops at the
\* first match: when the loop moves on to entry i (pc = "for") no entry before
\* it holds a match; what is returned comes from the earliest entry that holds
\* a match (a plain file before images.zip, images.zip before an enclosing
\* archive), and None is returned only when no entry holds one.
C6_EarliestEntryWins ==
    pc \in {"for", "returned"} =>
        /\ \A k \in 1..(i - 1) : ~Matches(k)
        /\ pc = "returned" =>
              IF i \in DOMAIN resource_path
              THEN LET d == resource_path[i]
                   IN  /\ Matches(i)
                       /\ IF FileMatch(d) # {}
                          THEN /\ result.kind = "file"
                               /\ result.filename \in FileMatch(d)
                          ELSE IF ZipHolds(d, RootEntries)
                          THEN /\ result.kind = "data"
                               /\ result.archive = ImagesZipOf(d)
                          ELSE /\ result.kind = "data"
                               /\ result.archive = ArchiveOf(d)
              ELSE result = None

C6_Witness ==
    /\ pc = "returned"
    /\ Len(resource_path) = 2
    /\ Matches(1)
    /\ Matches(2)
    /\ i = 1
    /\ ZipHolds(resource_path[1], RootEntries)
    /\ result.kind = "file"
    /\ result.filename \in FileMatch(resource_path[1])
    /\ result.filename \notin FileMatch(resource_path[2])

\* C7: with a size hint a file is taken from images/<w>x<h> when one matches
\* there, else from images/, else from the directory itself; without a size
\* hint from images/, else from the directory itself.
C7_SizeDirFirst ==
    (pc = "returned" /\ result.kind = "file") =>
        LET d == resource_path[i]
        IN  IF size # <<>> /\ Filenames(d, SizeDir) # {}
            THEN result.filename \in Filenames(d, SizeDir)
            ELSE IF Filenames(d, ImagesDir) # {}
            THEN result.filename \in Filenames(d, ImagesDir)
            ELSE result.filename \in Filenames(d, Bare)

C7_Witness ==
    /\ pc = "returned"
    /\ i \in DOMAIN resource_path
    /\ size = <<16, 16>>
    /\ Filenames(resource_path[i], SizeDir) # {}
    /\ Filenames(resource_path[i], ImagesDir) # {}
    /\ result.kind = "file"
    /\ result.filename \in Filenames(resource_path[i], SizeDir)

\* C10: for a path entry <archive>/<p1>/.../<pk> (or the archive itself) whose
\* archive holds one of <sub-path>/images/<name><ext>, <sub-path>/<name><ext>,
\* the upward walk stops at the archive with the sub-path p1/.../pk rebuilt,
\* what the lookup returns at that entry is a data reference for the first
\* such entry, and the loop never moves on past that path entry.
C10_EnclosingArchive ==
    /\ pc = "for" => \A k \in 1..(i - 1) : ~ArchiveMatch(resource_path[k])
    /\ (pc \in {"walk", "split", "archive", "returned"}
            /\ i \in DOMAIN resource_path)
        => LET d == resource_path[i]
           IN  ArchiveMatch(d) =>
                 /\ pc \in {"walk", "split", "archive"}
                       => Len(filepath) >= Len(ArchiveOf(d))
                 /\ pc = "archive"
                       => filepath = ArchiveOf(d) /\ zippath = SubPathOf(d)
                 /\ pc = "returned"
                       => result = DataReference(ArchiveOf(d), FirstEnclosed(d))

C10_Witness ==
    /\ pc = "returned"
    /\ i \in DOMAIN resource_path
    /\ resource_path[i] = LibPQ
    /\ result.kind = "data"
    /\ result.archive = Lib
    /\ result.entry = <<"p", "/", "q", "/", "icon", ".", "png">>


----------------------------------------------------------------------------
(* The claims about toolkit_object.                                        *)

\* The request names a module and an object.
WellFormed == Len(SplitColon(name)) = 2

\* What importing the requested backend module does.
Requested == Import(Backend(Toolkit) \o SplitColon(name)[1])

\* toolkit_object has been called and has returned or raised.
Called ==
    \/ tk_pc \in {"returned", "instantiated"}
    \/ tk_pc = "raised"

\* toolkit_object itself raised (NotImplementedError comes from
\* instantiating the stand-in, after it returned).
ObjectRaised == tk_pc = "raised" /\ tk_exc # "NotImplementedError"

\* The file lies in the package of the selected backend, pyface/ui/qt4/.
InBackendPackage(filename) ==
    Contains(filename, <<"pyface", "/", "ui", "/", Toolkit, "/">>)

C9_DebugSuppressesBackendOnly ==
    (Called /\ WellFormed /\ "ETS_DEBUG" \in environ
        /\ Requested.outcome = "ImportError")
    => (~ObjectRaised <=> InBackendPackage(Requested.filename))

====
